---- MODULE Spec2Model ----
(***************************************************************************)
(* Enum/string association of Xtinc/enum.                                  *)
(*                                                                         *)
(* The repository holds two variants of the same header:                   *)
(*   "enum_h"        src/enum.h           EnumMetaInfo<E>::Info(),         *)
(*                                        enum_to_string, enum_from_string *)
(*   "enum_strings"  src/unnamed/part_000 _get_enum_strings(E),            *)
(*                                        enum_strings::to_string,         *)
(*                                        enum_strings::from_string        *)
(* and a demo program, src/main.cpp.  Both variants are modelled; the      *)
(* variable `variant` says which header the program was built with.        *)
(*                                                                         *)
(* A std::string is a sequence of characters.  An enum value is its        *)
(* ordinal, a value of the enum's underlying type.  A call's outcome is a  *)
(* record whose `kind` is "string", "enum", "invalid_argument" or "crash". *)
(***************************************************************************)
EXTENDS Integers, Sequences, FiniteSets

VARIABLES
    variant,    \* which header the program includes
    table,      \* the names given to ENUM_STRINGS(E, ...), in declaration order
    pc,         \* "main": in main(); "stream_io": inside test_stream_io
    ss,         \* test_stream_io's std::stringstream
    v,          \* test_stream_io's `E v`
    last,       \* the last call completed and its outcome
    guard,      \* initialisation state of the function-local static `ss`
    statics,    \* the function-local static `ss` of _get_enum_strings
    thr         \* per thread: position in the call and the array Info() is building

seqVars == <<pc, ss, v, last>>

thrVars == <<guard, statics, thr>>

vars == <<variant, table, pc, ss, v, last, guard, statics, thr>>

\* ------------------------------------------------------------------ bounds

\* Longest name table (number of names given to ENUM_STRINGS).
MaxLen == 2

\* Longest std::string (a name, a from_string argument, a text put in a stream).
MaxStrLen == 2

\* Number of threads calling the conversions concurrently.
NThreads == 2

\* Width in bits of the underlying type (int16_t of N2::StrongEnum, the
\* narrowest in the program).  static_cast<base_type>(size) wraps only for
\* tables of 2^(BaseBits-1) names or more, far longer than MaxLen.
BaseBits == 16

\* ----------------------------------------------------------------- strings

\* The characters: a letter and a whitespace character.
Chars == {"a", " "}

\* std::isspace, as operator>> uses it to delimit a token.
IsSpace(c) == c = " "

Strings == UNION {[1..n -> Chars] : n \in 0..MaxStrLen}

\* The tables ENUM_STRINGS can declare: any list of string literals.  The empty
\* table is the primary EnumMetaInfo template (no association declared) in
\* enum.h and `stringlist ss{}` in the other header.
Tables == UNION {[1..k -> Strings] : k \in 0..MaxLen}

\* The values an object of enum type can hold.  Enumerators are 0..k-1; an
\* unchecked cast makes any value of the underlying type, negative ones when
\* that type is signed (int16_t, int).
Ordinals == -1..(MaxLen + 1)

Variants == {"enum_h", "enum_strings"}

\* ---------------------------------------------------------------- outcomes

StringOut(s) == [kind |-> "string", str |-> s]

EnumOut(n) == [kind |-> "enum", ord |-> n]

\* std::invalid_argument thrown by enum_strings::to_string; the message carries
\* the index and "Valid range is 0..<size - 1>".  size - 1 is computed in
\* size_t: for an empty table it wraps to SIZE_MAX, written -1 here.
OutOfRange(index, size) ==
    [kind |-> "invalid_argument", what |-> "Invalid value", index |-> index, hi |-> size - 1]

\* std::invalid_argument thrown by enum_strings::from_string; the message carries
\* the rejected string.
UnknownName(s) == [kind |-> "invalid_argument", what |-> "not a valid string representation", str |-> s]

\* operator[] outside the container is undefined behaviour: the read yields
\* whatever bytes lie there (any string) or the process dies.
OutOfBoundsRead == {StringOut(s) : s \in Strings} \cup {[kind |-> "crash"]}

\* ------------------------------------------------------------- conversions

\* static_cast<base_type>(x) for the signed BaseBits-wide underlying type
\* (two's complement wrap-around).
ToBase(x) ==
    LET half == 2 ^ (BaseBits - 1)
    IN  ((x + half) % (2 * half)) - half

\* Subscript with the index taken as 1-based (an off-by-one slip).
SubscriptOneBased(strings, index) ==
    IF index >= 1 /\ index <= Len(strings)
    THEN {StringOut(strings[index])}
    ELSE OutOfBoundsRead

\* strings[index] / string_list[index]: element index (0-based) of the table.
Subscript(strings, index) ==
    IF index >= 0 /\ index < Len(strings)
    THEN {StringOut(strings[index + 1])}
    ELSE OutOfBoundsRead

\* enum_strings::to_string (part_000): the set of outcomes the call can have.
to_string(strings, e) ==
    LET index == ToBase(e)
    IN  IF index >= ToBase(Len(strings))
        THEN {OutOfRange(index, Len(strings))}
        ELSE Subscript(strings, index)

\* enum_to_string (enum.h): an index at or past max_size yields std::string{}.
enum_to_string(string_list, e) ==
    LET index == ToBase(e)
        max_size == Len(string_list)
    IN  IF index >= ToBase(max_size)
        THEN {StringOut(<<>>)}
        ELSE Subscript(string_list, index)

\* Scan that keeps going after a match and so yields the last match.
RECURSIVE ScanLast(_, _, _, _)
ScanLast(strings, s, n, cmps) ==
    LET hits == {i \in (n + 1)..Len(strings) : strings[i] = s}
    IN  IF hits = {}
        THEN [n |-> Len(strings), cmps |-> cmps + Len(strings) - n]
        ELSE [n |-> (CHOOSE i \in hits : \A j \in hits : j <= i) - 1,
              cmps |-> cmps + Len(strings) - n]

\* Scan whose loop starts at index 1 instead of 0.
RECURSIVE ScanFromOne(_, _, _, _)
ScanFromOne(strings, s, n, cmps) ==
    IF n = 0 /\ Len(strings) > 0
    THEN ScanFromOne(strings, s, 1, cmps)
    ELSE IF n < Len(strings)
         THEN IF strings[n + 1] # s
              THEN ScanFromOne(strings, s, n + 1, cmps + 1)
              ELSE [n |-> n, cmps |-> cmps + 1]
         ELSE [n |-> n, cmps |-> cmps]

\* The while loop shared by both from_string variants, started at n with
\* `cmps` evaluations of strings[n] != s done so far.  Yields the final n and
\* the number of string comparisons made.
RECURSIVE Scan(_, _, _, _)
Scan(strings, s, n, cmps) ==
    IF n < Len(strings)
    THEN IF strings[n + 1] # s
         THEN Scan(strings, s, n + 1, cmps + 1)
         ELSE [n |-> n, cmps |-> cmps + 1]
    ELSE [n |-> n, cmps |-> cmps]

\* enum_strings::from_string (part_000).
from_string(strings, s) ==
    LET r == Scan(strings, s, 0, 0)
    IN  IF r.n = Len(strings)
        THEN UnknownName(s)
        ELSE EnumOut(ToBase(r.n))

\* enum_from_string (enum.h): E{} when nothing matches.
enum_from_string(string_list, s) ==
    LET r == Scan(string_list, s, 0, 0)
        max_size == Len(string_list)
    IN  IF r.n = max_size
        THEN EnumOut(0)
        ELSE EnumOut(ToBase(r.n))

\* The conversions of the header the program was built with.
ToStringOf(var, tbl, e) ==
    IF var = "enum_h" THEN enum_to_string(tbl, e) ELSE to_string(tbl, e)

FromStringOf(var, tbl, s) ==
    IF var = "enum_h" THEN enum_from_string(tbl, s) ELSE from_string(tbl, s)

\* ------------------------------------------------------------------ streams

\* A std::stringstream: the characters written, the get position, eofbit and
\* failbit.  `src` is a history field: what filled the buffer.
EmptyStream == [buf |-> <<>>, gpos |-> 0, eof |-> FALSE, fail |-> FALSE, src |-> [kind |-> "none"]]

\* `E v;`: declared without an initialiser.
Indeterminate == [kind |-> "indeterminate"]

NoCall == [op |-> "none"]

\* os << std::string: the sentry fails on a stream that is not good().
Write(s, text, how) ==
    IF s.eof \/ s.fail
    THEN [s EXCEPT !.fail = TRUE, !.src = how]
    ELSE [s EXCEPT !.buf = s.buf \o text, !.src = how]

\* First position >= i (1-based) of buf holding a non-whitespace character,
\* Len(buf) + 1 when there is none: the sentry's whitespace skipping.
RECURSIVE SkipWs(_, _)
SkipWs(buf, i) ==
    IF i <= Len(buf) /\ IsSpace(buf[i]) THEN SkipWs(buf, i + 1) ELSE i

\* TokenEnd that stops after one character (a char read instead of a word).
TokenEndOneChar(buf, i) == IF i <= Len(buf) THEN i + 1 ELSE i

\* First position >= i of buf holding whitespace, Len(buf) + 1 when none.
RECURSIVE TokenEnd(_, _)
TokenEnd(buf, i) ==
    IF i <= Len(buf) /\ ~IsSpace(buf[i]) THEN TokenEnd(buf, i + 1) ELSE i

\* std::string s; is >> s;  Yields s and the stream afterwards.  When the
\* sentry fails s is left as constructed: empty.
ReadToken(s) ==
    IF s.eof \/ s.fail
    THEN [tok |-> <<>>, strm |-> [s EXCEPT !.fail = TRUE]]
    ELSE LET p == SkipWs(s.buf, s.gpos + 1)
             q == TokenEnd(s.buf, p)
         IN  IF p > Len(s.buf)
             THEN [tok |-> <<>>,
                   strm |-> [s EXCEPT !.gpos = Len(s.buf), !.eof = TRUE, !.fail = TRUE]]
             ELSE [tok |-> SubSeq(s.buf, p, q - 1),
                   strm |-> [s EXCEPT !.gpos = q - 1, !.eof = (q > Len(s.buf))]]

\* ------------------------------------------------------- sequential program

\* main() calls to_string / enum_to_string on a value of E.
CallToString(e) ==
    /\ pc = "main"
    /\ \E out \in ToStringOf(variant, table, e) :
          last' = [op |-> "to_string", ord |-> e, out |-> out]
    /\ UNCHANGED <<variant, table, pc, ss, v, thrVars>>

\* main() calls from_string<E> / enum_from_string<E> on a string.
CallFromString(s) ==
    /\ pc = "main"
    /\ last' = [op |-> "from_string", arg |-> s,
                out |-> FromStringOf(variant, table, s),
                cmps |-> Scan(table, s, 0, 0).cmps]
    /\ UNCHANGED <<variant, table, pc, ss, v, thrVars>>

\* test_stream_io is entered: `std::stringstream ss;` and `E v;`.
BeginStreamIO ==
    /\ pc = "main"
    /\ pc' = "stream_io"
    /\ ss' = EmptyStream
    /\ v' = Indeterminate
    /\ last' = NoCall
    /\ UNCHANGED <<variant, table, thrVars>>

\* operator<<(std::ostream &, E): os << to_string(e).  A throw of to_string
\* leaves the stream untouched.
Insert(e) ==
    /\ pc = "stream_io"
    /\ ss.src.kind = "none"
    /\ \E out \in ToStringOf(variant, table, e) :
          /\ last' = [op |-> "insert", ord |-> e, out |-> out]
          /\ ss' = IF out.kind = "string"
                   THEN Write(ss, out.str, [kind |-> "insert", ord |-> e])
                   ELSE ss
    /\ UNCHANGED <<variant, table, pc, v, thrVars>>

\* The caller writes a text of its own into the stream.
Put(text) ==
    /\ pc = "stream_io"
    /\ ss.src.kind = "none"
    /\ ss' = Write(ss, text, [kind |-> "put"])
    /\ last' = [op |-> "put", arg |-> text]
    /\ UNCHANGED <<variant, table, pc, v, thrVars>>

\* operator>>(std::istream &, E &): is >> s; e = from_string<E>(s).  The
\* assignment happens only when from_string returns.
Extract ==
    /\ pc = "stream_io"
    /\ LET r == ReadToken(ss)
           out == FromStringOf(variant, table, r.tok)
       IN  /\ ss' = r.strm
           /\ v' = IF out.kind = "enum" THEN out ELSE v
           /\ last' = [op |-> "extract", tok |-> r.tok, out |-> out,
                       vOld |-> v, before |-> ss]
    /\ UNCHANGED <<variant, table, pc, thrVars>>

\* test_stream_io returns (or an exception leaves it): its locals are gone.
EndStreamIO ==
    /\ pc = "stream_io"
    /\ pc' = "main"
    /\ ss' = EmptyStream
    /\ v' = Indeterminate
    /\ last' = NoCall
    /\ UNCHANGED <<variant, table, thrVars>>

Init ==
    /\ variant \in Variants
    /\ table \in Tables
    /\ pc = "main"
    /\ ss = EmptyStream
    /\ v = Indeterminate
    /\ last = NoCall
    /\ guard = "uninit"
    /\ statics = <<>>
    /\ thr = <<>>

\* The program of main.cpp is single-threaded: no thread step.
Next ==
    \/ \E e \in Ordinals : CallToString(e)
    \/ \E s \in Strings : CallFromString(s)
    \/ BeginStreamIO
    \/ \E text \in Strings : Put(text)
    \/ \E e \in Ordinals : Insert(e)
    \/ Extract
    \/ EndStreamIO

Spec == Init /\ [][Next]_vars

\* ------------------------------------------------------- concurrent callers

Threads == 1..NThreads

\* StaticInitStep without the wait: a thread that comes while the construction
\* runs goes on to use the container.
StaticInitNoWait(g) ==
    IF g = "uninit" THEN "construct" ELSE "skip"

\* What a thread does when control reaches `static stringlist ss{...};`
\* (dynamic initialisation of a block-scope static): the first thread to come
\* constructs, a thread that comes while the construction runs waits for its
\* completion, a later one skips the declaration.
StaticInitStep(g) ==
    IF g = "uninit" THEN "construct"
    ELSE IF g = "busy" THEN "wait"
    ELSE "skip"

\* The table a thread holding a reference reads: the array its own call of
\* Info() returned (enum.h) or the shared static vector (part_000).
TableSeenBy(t) == IF variant = "enum_h" THEN thr[t].tbl ELSE statics

\* A thread calls a conversion, which first asks for the table:
\* EnumMetaInfo<E>::Info() starts a new array; _get_enum_strings(E{}) reaches
\* the declaration of its static.
Enter(t) ==
    /\ thr[t].pc = "idle"
    /\ IF variant = "enum_h"
       THEN /\ thr' = [thr EXCEPT ![t] = [pc |-> "construct", tbl |-> <<>>]]
            /\ UNCHANGED <<guard, statics>>
       ELSE /\ StaticInitStep(guard) # "wait"
            /\ IF StaticInitStep(guard) = "construct"
               THEN /\ guard' = "busy"
                    /\ thr' = [thr EXCEPT ![t].pc = "construct"]
               ELSE /\ guard' = guard
                    /\ thr' = [thr EXCEPT ![t].pc = "ready"]
            /\ UNCHANGED statics
    /\ UNCHANGED <<variant, table, seqVars>>

\* The constructing thread copies the next declared name into the container,
\* or, all copied, completes the construction.
Construct(t) ==
    /\ thr[t].pc = "construct"
    /\ IF variant = "enum_h"
       THEN /\ thr' = IF Len(thr[t].tbl) < Len(table)
                      THEN [thr EXCEPT ![t].tbl = Append(@, table[Len(@) + 1])]
                      ELSE [thr EXCEPT ![t].pc = "ready"]
            /\ UNCHANGED <<guard, statics>>
       ELSE IF Len(statics) < Len(table)
            THEN /\ statics' = Append(statics, table[Len(statics) + 1])
                 /\ UNCHANGED <<guard, thr>>
            ELSE /\ guard' = "done"
                 /\ thr' = [thr EXCEPT ![t].pc = "ready"]
                 /\ UNCHANGED statics
    /\ UNCHANGED <<variant, table, seqVars>>

\* The rest of to_string / enum_to_string in thread t, on the table it got.
UseToString(t, e) ==
    /\ thr[t].pc = "ready"
    /\ \E out \in ToStringOf(variant, TableSeenBy(t), e) :
          last' = [op |-> "to_string", ord |-> e, out |-> out,
                   by |-> t, seen |-> TableSeenBy(t)]
    /\ thr' = [thr EXCEPT ![t] = [pc |-> "idle", tbl |-> <<>>]]
    /\ UNCHANGED <<variant, table, pc, ss, v, guard, statics>>

\* The rest of from_string / enum_from_string in thread t.
UseFromString(t, s) ==
    /\ thr[t].pc = "ready"
    /\ last' = [op |-> "from_string", arg |-> s,
                out |-> FromStringOf(variant, TableSeenBy(t), s),
                cmps |-> Scan(TableSeenBy(t), s, 0, 0).cmps,
                by |-> t, seen |-> TableSeenBy(t)]
    /\ thr' = [thr EXCEPT ![t] = [pc |-> "idle", tbl |-> <<>>]]
    /\ UNCHANGED <<variant, table, pc, ss, v, guard, statics>>

\* Tables of pairwise distinct whitespace-free names, as the demo declares
\* them: what the names are plays no part in how threads obtain the table.
PlainTables == {t \in Tables : /\ \A i, j \in DOMAIN t : t[i] = t[j] => i = j
                               /\ \A i \in DOMAIN t : \A c \in DOMAIN t[i] : ~IsSpace(t[i][c])}

InitThreads ==
    /\ variant \in Variants
    /\ table \in PlainTables
    /\ pc = "main"
    /\ ss = EmptyStream
    /\ v = Indeterminate
    /\ last = NoCall
    /\ guard = "uninit"
    /\ statics = <<>>
    /\ thr = [t \in Threads |-> [pc |-> "idle", tbl |-> <<>>]]

NextThreads ==
    \/ \E t \in Threads : Enter(t)
    \/ \E t \in Threads : Construct(t)
    \/ \E t \in Threads, e \in Ordinals : UseToString(t, e)
    \/ \E t \in Threads, s \in Strings : UseFromString(t, s)

SpecThreads == InitThreads /\ [][NextThreads]_vars

\* ------------------------------------------------------------------- claims

Range(t) == {t[i] : i \in DOMAIN t}

Distinct(t) == \A i, j \in DOMAIN t : t[i] = t[j] => i = j

HasSpace(s) == \E i \in DOMAIN s : IsSpace(s[i])

InRange(e) == e >= 0 /\ e < Len(table)

\* The table's length is a positive value of the underlying type, so that
\* static_cast<base_type>(size) does not wrap.
FitsBase(t) == Len(t) < 2 ^ (BaseBits - 1)

C2_RoundTripAnyTable ==
    \A e \in Ordinals :
        (/\ InRange(e)
         /\ last.op = "from_string"
         /\ StringOut(last.arg) \in ToStringOf(variant, table, e))
            => last.out = EnumOut(e)

\* C2 amended: when the declared names are pairwise distinct (and k is a
\* positive value of the underlying type), for every e in [0, k),
\* from_string(to_string(e)) = e.
C2_RoundTripDistinct ==
    (Distinct(table) /\ FitsBase(table)) => C2_RoundTripAnyTable

C2_Witness ==
    /\ Len(table) = 2
    /\ Distinct(table)
    /\ last.op = "from_string"
    /\ StringOut(last.arg) \in ToStringOf(variant, table, 1)
    /\ last.out = EnumOut(1)

\* C3: from_string of a string that is no entry of the table ends in an
\* UnknownName error carrying the string, never in an enumerator.
C3_UnknownRejected ==
    (last.op = "from_string" /\ last.arg \notin Range(table))
        => last.out = UnknownName(last.arg)

\* C4: to_string of a value whose ordinal is >= k ends in an OutOfRange error,
\* never in a string.
C4_RangeRejected ==
    (last.op = "to_string" /\ last.ord >= Len(table))
        => last.out = OutOfRange(last.ord, Len(table))

\* The stream is as test_stream_io has it after `ss << e` on the fresh stream,
\* e an enumerator of E.
FreshlyInserted(s) ==
    /\ s.src.kind = "insert"
    /\ InRange(s.src.ord)
    /\ s.gpos = 0
    /\ ~s.eof
    /\ ~s.fail

\* C5 as stated: for every table and every e in [0, k), `ss << e; ss >> v` on
\* an empty stream leaves v = e.
C5_StreamRoundTripAnyTable ==
    (last.op = "extract" /\ FreshlyInserted(last.before))
        => v = EnumOut(last.before.src.ord)

\* C5 amended: the same when the declared names are pairwise distinct and none
\* of them contains whitespace (and k is a positive value of the underlying
\* type).
C5_StreamRoundTripTokens ==
    (/\ Distinct(table)
     /\ \A i \in DOMAIN table : ~HasSpace(table[i])
     /\ FitsBase(table))
        => C5_StreamRoundTripAnyTable

C5_Witness ==
    /\ Len(table) = 2
    /\ Distinct(table)
    /\ \A i \in DOMAIN table : ~HasSpace(table[i])
    /\ last.op = "extract"
    /\ FreshlyInserted(last.before)
    /\ last.before.src.ord = 1
    /\ v = EnumOut(1)

\* No token can be read from the stream: it is at end of input or holds only
\* whitespace from the get position on.
Exhausted(s) == SkipWs(s.buf, s.gpos + 1) > Len(s.buf)

\* C6: extraction from a source that cannot supply a token ends in
\* SourceExhausted; from_string is not called on the empty token, and neither
\* UnknownName nor an enumerator results.
C6_SourceExhausted ==
    (last.op = "extract" /\ Exhausted(last.before))
        => last.out.kind = "source_exhausted"

\* C8: to_string of a value with a negative ordinal ends in an OutOfRange
\* error; the table is never read at a negative index.
C8_NegativeRejected ==
    (last.op = "to_string" /\ last.ord < 0)
        => last.out = OutOfRange(last.ord, Len(table))

\* Smallest 0-based index at which s occurs in t.
FirstIndex(t, s) == CHOOSE n \in 0..(Len(t) - 1) :
    /\ t[n + 1] = s
    /\ \A m \in 0..(n - 1) : t[m + 1] # s

\* C9: from_string of a string that occurs in the table returns the
\* enumerator of the smallest index holding it, and the scan makes at most
\* table.length comparisons.
C9_FirstMatch ==
    last.op = "from_string"
        => /\ last.cmps <= Len(table)
           /\ last.arg \in Range(table)
                => last.out = EnumOut(FirstIndex(table, last.arg))

C9_Witness ==
    /\ last.op = "from_string"
    /\ Len(table) = 2
    /\ table[1] = table[2]
    /\ last.arg = table[2]
    /\ last.out = EnumOut(0)
    /\ last.cmps = 1

C7_NameStability ==
    /\ \A t \in Threads : thr[t].pc = "ready" => TableSeenBy(t) = table
    /\ guard = "done" => statics = table
    /\ last.op \in {"to_string", "from_string"} => last.seen = table
    /\ (last.op = "to_string" /\ InRange(last.ord))
          => last.out = StringOut(table[last.ord + 1])

\* The shared static is constructed, one thread has completed to_string of
\* the second enumerator and another thread holds the table at the same time.
C7_Witness ==
    /\ variant = "enum_strings"
    /\ Len(table) = 2
    /\ guard = "done"
    /\ \E t \in Threads : thr[t].pc = "ready"
    /\ last.op = "to_string"
    /\ last.ord = 1
    /\ last.out = StringOut(table[2])
    /\ \E t \in Threads : t # last.by /\ thr[t].pc = "ready"

====
